---- MODULE Spec2Model ----
(***************************************************************************)
(* Model of HeartRateMonitorBridge (src/hr_monitor_bridge.py): the ANT+    *)
(* broadcast callback on_ant_broadcast, which decodes a frame into the     *)
(* shared pair (current_heart_rate, last_heart_rate_time), and the body of *)
(* broadcast_loop, which once per tick encodes current_heart_rate into a   *)
(* BLE Heart Rate Measurement value and assigns it to the characteristic.  *)
(*                                                                         *)
(* The callback runs in the ANT+ transport's context and the loop in the   *)
(* asyncio task, so each is modelled statement by statement: one action    *)
(* per read or write of the shared fields.                                 *)
(*                                                                         *)
(* Python indexes from 0 and TLA+ sequences from 1: data[1] is cb_data[2]. *)
(* time.time() is modelled by the variable clock, which never decreases.   *)
(*                                                                         *)
(* Spec starts where broadcast_loop has found the characteristic, with the *)
(* configuration main() builds; SpecRun starts at the constructor and      *)
(* follows run() through setup, the loop, cancellation, faults and the     *)
(* finally clause.                                                         *)
(***************************************************************************)
EXTENDS Integers, Sequences, FiniteSets

\* ---------------------------------------------------------------- bounds
MaxFrameLen == 5        \* longest inbound frame delivered
MaxTime     == 3        \* last value of the clock
MaxDecodes  == 2        \* valid frames decoded in one behaviour
MaxPushes   == 2        \* push attempts in one behaviour

\* ------------------------------------------------------ program constants
MinFrameLen  == 5       \* len(data) >= 5
HrFlags      == 0       \* flags = 0x00
TickInterval == 1       \* asyncio.sleep(1)
ByteMax      == 255     \* struct format 'B': 0..255
DEVICE_TYPE       == 120    \* Heart Rate Monitor device type
TRANSMISSION_TYPE == 0
MainDeviceId      == 12345  \* HRM_DEVICE_ID of main()
FixedDeviceId     == 22184  \* the number __init__ assigns to ant_device_id

\* the default of ant_network_key: the public ANT+ network key
PublicNetworkKey == <<185, 165, 33, 251, 189, 114, 195, 69>>

\* no ant_network_key argument is passed
NoArg == <<>>

\* the device ids and the network key arguments a caller may pass
DeviceIds == {MainDeviceId, FixedDeviceId}
KeyArgs   == {NoArg, <<1, 2, 3, 4, 5, 6, 7, 8>>}

\* sampled byte values for data[1]: 0 (not reporting), 72 (a reading) and
\* 255 (the largest byte)
HrBytes == {0, 72, 255}

\* a frame of n bytes whose data[1] (when it exists) is b1; every other
\* byte is 3, a value that is no heart rate of HrBytes
MkFrame(n, b1) == [i \in 1..n |-> IF i = 2 THEN b1 ELSE 3]

\* the frames the ANT+ transport may deliver
Frames == {MkFrame(n, b1) : n \in 0..MaxFrameLen, b1 \in HrBytes}

VARIABLES
    current_heart_rate,     \* self.current_heart_rate
    last_heart_rate_time,   \* self.last_heart_rate_time
    clock,                  \* time.time()
    cb_pc,                  \* position of on_ant_broadcast
    cb_data,                \* its argument data
    bl_pc,                  \* position of broadcast_loop
    hr_data,                \* its local hr_data
    wake_at,                \* when the pending asyncio.sleep(1) ends
    char_value,             \* hr_measurement_char.value
    pushed,                 \* history: assignments to the characteristic
    decoded,                \* history: readings stored by the callback
    enc_src,                \* history: Len(decoded) when hr_data was packed
    tested_hr,              \* history: current_heart_rate seen by the last test
    arg_device_id,          \* the constructor's argument ant_device_id
    arg_network_key,        \* the constructor's argument ant_network_key
    ant_device_id,          \* self.ant_device_id
    ant_network_key,        \* self.ant_network_key
    run_pc,                 \* position of run
    fault,                  \* what ended the try block of run, if anything
    ant_node,               \* self.ant_node is set
    chan,                   \* self.hrm_channel as configured so far
    services_set,           \* adapter.set_services was called
    advertising,            \* adapter.start_advertising was called
    stop_count              \* calls of self.ant_node.stop()

shared  == <<current_heart_rate, last_heart_rate_time>>
cbVars  == <<cb_pc, cb_data>>
blVars  == <<bl_pc, hr_data, wake_at, char_value, pushed, enc_src, tested_hr>>
cfgVars == <<arg_device_id, arg_network_key, ant_device_id, ant_network_key>>
lcVars  == <<run_pc, fault, ant_node, chan, services_set, advertising, stop_count>>

vars == <<shared, clock, cbVars, blVars, decoded, cfgVars, lcVars>>

NoTime == -1

Last(s) == s[Len(s)]

\* ------------------------------------------------------- on_ant_broadcast

\* mutant: the length test accepts every frame that has a data[1]
FrameLongEnough_Short(data) == Len(data) >= 2

\* if len(data) >= 5:
FrameLongEnough(data) == Len(data) >= MinFrameLen

\* mutant: the heart rate is read from data[0]
DecodeHeartRate_Byte0(data) == data[1]

\* heart_rate = data[1]
DecodeHeartRate(data) == data[2]

\* mutant: a zero heart rate is stored like any other
ValidHeartRate_Any(heart_rate) == heart_rate >= 0

\* if heart_rate != 0:
ValidHeartRate(heart_rate) == heart_rate # 0

\* the frame passes both tests of on_ant_broadcast
ValidFrame(data) ==
    /\ FrameLongEnough(data)
    /\ Len(data) >= 2
    /\ ValidHeartRate(DecodeHeartRate(data))

\* the transport invokes the callback with a frame
Deliver(data) ==
    /\ cb_pc \in {"idle", "returned"}
    /\ chan.registered /\ chan.open /\ stop_count = 0
    /\ ValidFrame(data) => Len(decoded) < MaxDecodes
    /\ cb_pc' = "entered"
    /\ cb_data' = data
    /\ UNCHANGED <<shared, clock, blVars, decoded>>
    /\ UNCHANGED <<cfgVars, lcVars>>

\* the two tests; data[1] of a frame without a second byte raises IndexError
CbCheck ==
    /\ cb_pc = "entered"
    /\ cb_pc' = IF ~FrameLongEnough(cb_data) THEN "returned"
                ELSE IF Len(cb_data) < 2 THEN "raised"
                ELSE IF ValidHeartRate(DecodeHeartRate(cb_data)) THEN "store_hr"
                ELSE "returned"
    /\ UNCHANGED <<shared, clock, cb_data, blVars, decoded>>
    /\ UNCHANGED <<cfgVars, lcVars>>

\* mutant: only the first reading is stored
CbStoreHr_FirstOnly ==
    /\ cb_pc = "store_hr"
    /\ current_heart_rate' = IF current_heart_rate = 0
                                THEN DecodeHeartRate(cb_data)
                                ELSE current_heart_rate
    /\ decoded' = Append(decoded, [hr |-> DecodeHeartRate(cb_data), at |-> NoTime])
    /\ cb_pc' = "store_time"
    /\ UNCHANGED <<last_heart_rate_time, clock, cb_data, blVars>>
    /\ UNCHANGED <<cfgVars, lcVars>>

\* self.current_heart_rate = heart_rate
CbStoreHr ==
    /\ cb_pc = "store_hr"
    /\ current_heart_rate' = DecodeHeartRate(cb_data)
    /\ decoded' = Append(decoded, [hr |-> DecodeHeartRate(cb_data), at |-> NoTime])
    /\ cb_pc' = "store_time"
    /\ UNCHANGED <<last_heart_rate_time, clock, cb_data, blVars>>
    /\ UNCHANGED <<cfgVars, lcVars>>

\* self.last_heart_rate_time = time.time(); log; return
CbStoreTime ==
    /\ cb_pc = "store_time"
    /\ last_heart_rate_time' = clock
    /\ decoded' = [decoded EXCEPT ![Len(decoded)].at = clock]
    /\ cb_pc' = "returned"
    /\ UNCHANGED <<current_heart_rate, clock, cb_data, blVars>>
    /\ UNCHANGED <<cfgVars, lcVars>>

\* --------------------------------------------------------- broadcast_loop

\* mutant: the tick pushes in the Idle state too
ShouldPush_Always(heart_rate) == heart_rate >= 0

\* mutant: the comparison is inverted
ShouldPush_Inverted(heart_rate) == heart_rate < 0

\* if self.current_heart_rate > 0:
ShouldPush(heart_rate) == heart_rate > 0

\* mutant: the two bytes are packed in the wrong order
StructPackBB_Swapped(a, b) ==
    IF a \in 0..ByteMax /\ b \in 0..ByteMax THEN <<b, a>> ELSE <<>>

\* struct.pack('<BB', a, b): two unsigned bytes, a first; <<>> stands for
\* struct.error when an argument is not in 0..255
StructPackBB(a, b) ==
    IF a \in 0..ByteMax /\ b \in 0..ByteMax THEN <<a, b>> ELSE <<>>

\* the test at the top of an iteration; a skipped tick goes to the sleep
BlTest ==
    /\ run_pc = "loop"
    /\ bl_pc = "test"
    /\ IF ShouldPush(current_heart_rate)
         THEN /\ bl_pc' = "pack"
              /\ UNCHANGED wake_at
         ELSE /\ bl_pc' = "sleep"
              /\ wake_at' = clock + TickInterval
    /\ UNCHANGED <<shared, clock, cbVars, hr_data, char_value, pushed,
                   decoded, enc_src>>
    /\ tested_hr' = current_heart_rate
    /\ UNCHANGED <<cfgVars, lcVars>>

\* mutant: the flags byte counts the pushes
BlPack_Counting ==
    /\ run_pc = "loop"
    /\ bl_pc = "pack"
    /\ Len(pushed) < MaxPushes
    /\ bl_pc' = "push"
    /\ hr_data' = StructPackBB(Len(pushed), current_heart_rate)
    /\ enc_src' = Len(decoded)
    /\ UNCHANGED <<shared, clock, cbVars, wake_at, char_value, pushed, decoded,
                   tested_hr, cfgVars, lcVars>>

\* hr_data = struct.pack('<BB', flags, self.current_heart_rate); a
\* struct.error is raised outside the try of the loop: it ends the loop
\* and is caught by run
BlPack ==
    /\ run_pc = "loop"
    /\ bl_pc = "pack"
    /\ Len(pushed) < MaxPushes
    /\ LET packed == StructPackBB(HrFlags, current_heart_rate)
       IN  IF packed = <<>>
             THEN /\ bl_pc' = "exited"
                  /\ run_pc' = "finally"
                  /\ fault' = "loop"
                  /\ UNCHANGED <<hr_data, enc_src>>
             ELSE /\ bl_pc' = "push"
                  /\ hr_data' = packed
                  /\ enc_src' = Len(decoded)
                  /\ UNCHANGED <<run_pc, fault>>
    /\ UNCHANGED <<shared, clock, cbVars, wake_at, char_value, pushed, decoded,
                   tested_hr, cfgVars, ant_node, chan, services_set,
                   advertising, stop_count>>

\* hr_measurement_char.value = hr_data succeeds
BlPushOk ==
    /\ run_pc = "loop"
    /\ bl_pc = "push"
    /\ char_value' = hr_data
    /\ pushed' = Append(pushed, [frame |-> hr_data, ok |-> TRUE, src |-> enc_src])
    /\ bl_pc' = "sleep"
    /\ wake_at' = clock + TickInterval
    /\ UNCHANGED <<shared, clock, cbVars, hr_data, decoded, enc_src>>
    /\ UNCHANGED <<tested_hr, cfgVars, lcVars>>

\* mutant: the exception of a failed push leaves the loop
BlPushFail_Propagate ==
    /\ run_pc = "loop"
    /\ bl_pc = "push"
    /\ pushed' = Append(pushed, [frame |-> hr_data, ok |-> FALSE, src |-> enc_src])
    /\ bl_pc' = "exited"
    /\ UNCHANGED <<shared, clock, cbVars, hr_data, wake_at, char_value,
                   decoded, enc_src>>
    /\ UNCHANGED <<tested_hr, cfgVars, lcVars>>

\* mutant: a failed push clears the reading
BlPushFail_Reset ==
    /\ run_pc = "loop"
    /\ bl_pc = "push"
    /\ pushed' = Append(pushed, [frame |-> hr_data, ok |-> FALSE, src |-> enc_src])
    /\ bl_pc' = "sleep"
    /\ wake_at' = clock + TickInterval
    /\ current_heart_rate' = 0
    /\ UNCHANGED <<last_heart_rate_time, clock, cbVars, hr_data, char_value,
                   decoded, enc_src>>
    /\ UNCHANGED <<tested_hr, cfgVars, lcVars>>

\* the assignment raises: except Exception logs the error
BlPushFail ==
    /\ run_pc = "loop"
    /\ bl_pc = "push"
    /\ pushed' = Append(pushed, [frame |-> hr_data, ok |-> FALSE, src |-> enc_src])
    /\ bl_pc' = "sleep"
    /\ wake_at' = clock + TickInterval
    /\ UNCHANGED <<shared, clock, cbVars, hr_data, char_value, decoded, enc_src>>
    /\ UNCHANGED <<tested_hr, cfgVars, lcVars>>

\* mutant: a reading older than one tick is expired when the sleep ends
BlWake_Expire ==
    /\ run_pc = "loop"
    /\ bl_pc = "sleep"
    /\ clock >= wake_at
    /\ bl_pc' = "test"
    /\ current_heart_rate' = IF clock - last_heart_rate_time > TickInterval
                                THEN 0 ELSE current_heart_rate
    /\ UNCHANGED <<last_heart_rate_time, clock, cbVars, hr_data, wake_at,
                   char_value, pushed, decoded, enc_src>>
    /\ UNCHANGED <<tested_hr, cfgVars, lcVars>>

\* await asyncio.sleep(1) returns
BlWake ==
    /\ run_pc = "loop"
    /\ bl_pc = "sleep"
    /\ clock >= wake_at
    /\ bl_pc' = "test"
    /\ UNCHANGED <<shared, clock, cbVars, hr_data, wake_at, char_value, pushed,
                   decoded, enc_src>>
    /\ UNCHANGED <<tested_hr, cfgVars, lcVars>>

\* await asyncio.sleep(1) returns when the clock is at its last value: there
\* MaxTime stands for every later time, and the end of the sleep is no
\* longer measured
BlWakeAtHorizon ==
    /\ run_pc = "loop"
    /\ bl_pc = "sleep"
    /\ clock = MaxTime
    /\ wake_at > MaxTime
    /\ bl_pc' = "test"
    /\ UNCHANGED <<shared, clock, cbVars, hr_data, wake_at, char_value, pushed,
                   decoded, enc_src>>
    /\ UNCHANGED <<tested_hr, cfgVars, lcVars>>

\* ------------------------------------------------------------------ time

TimePasses ==
    /\ clock < MaxTime
    /\ clock' = clock + 1
    /\ UNCHANGED <<shared, cbVars, blVars, decoded>>
    /\ UNCHANGED <<cfgVars, lcVars>>

\* ---------------------------------------------------- __init__ and run

\* the fields __init__ sets from its arguments
InitDeviceId(device_id) == FixedDeviceId

InitNetworkKey(network_key) ==
    IF network_key = NoArg THEN PublicNetworkKey ELSE network_key

\* self.hrm_channel before new_channel
NoChannel == [registered |-> FALSE, key |-> <<>>, id |-> <<>>, open |-> FALSE]

\* the statements of setup_ant_node, start_bluetooth_server and the head of
\* broadcast_loop, in program order
SetupSteps == <<"node", "capabilities", "new_channel", "network_key",
                "channel_id", "channel_open", "adapter", "set_services",
                "advertising", "find_char">>

AntSteps == {"capabilities", "new_channel", "network_key", "channel_id",
             "channel_open"}
BleSteps == {"adapter", "set_services", "advertising"}

StepSet == {SetupSteps[i] : i \in DOMAIN SetupSteps}

\* self.ant_node = easy.Node()
NodeCreate ==
    /\ run_pc = "node"
    /\ ant_node' = TRUE
    /\ run_pc' = "capabilities"
    /\ UNCHANGED <<shared, clock, cbVars, blVars, decoded, cfgVars, fault, chan,
                   services_set, advertising, stop_count>>

\* request_message(RESPONSE_CAPABILITIES) and the log line
RequestCapabilities ==
    /\ run_pc = "capabilities"
    /\ run_pc' = "new_channel"
    /\ UNCHANGED <<shared, clock, cbVars, blVars, decoded, cfgVars, fault,
                   ant_node, chan, services_set, advertising, stop_count>>

\* mutant: the callbacks are not registered on the new channel
NewChannel_NoCallback ==
    /\ run_pc = "new_channel"
    /\ chan' = NoChannel
    /\ run_pc' = "network_key"
    /\ UNCHANGED <<shared, clock, cbVars, blVars, decoded, cfgVars, fault,
                   ant_node, services_set, advertising, stop_count>>

\* new_channel, then on_broadcast_data and on_burst_data = on_ant_broadcast
NewChannel ==
    /\ run_pc = "new_channel"
    /\ chan' = [NoChannel EXCEPT !.registered = TRUE]
    /\ run_pc' = "network_key"
    /\ UNCHANGED <<shared, clock, cbVars, blVars, decoded, cfgVars, fault,
                   ant_node, services_set, advertising, stop_count>>

\* self.hrm_channel.set_network_key(0, self.ant_network_key)
SetNetworkKey ==
    /\ run_pc = "network_key"
    /\ chan' = [chan EXCEPT !.key = ant_network_key]
    /\ run_pc' = "channel_id"
    /\ UNCHANGED <<shared, clock, cbVars, blVars, decoded, cfgVars, fault,
                   ant_node, services_set, advertising, stop_count>>

\* self.hrm_channel.set_id(self.ant_device_id, DEVICE_TYPE, TRANSMISSION_TYPE)
SetChannelId ==
    /\ run_pc = "channel_id"
    /\ chan' = [chan EXCEPT !.id = <<ant_device_id, DEVICE_TYPE, TRANSMISSION_TYPE>>]
    /\ run_pc' = "channel_open"
    /\ UNCHANGED <<shared, clock, cbVars, blVars, decoded, cfgVars, fault,
                   ant_node, services_set, advertising, stop_count>>

\* self.hrm_channel.open()
OpenChannel ==
    /\ run_pc = "channel_open"
    /\ chan' = [chan EXCEPT !.open = TRUE]
    /\ run_pc' = "adapter"
    /\ UNCHANGED <<shared, clock, cbVars, blVars, decoded, cfgVars, fault,
                   ant_node, services_set, advertising, stop_count>>

\* adapter = get_provider().get_adapter()
GetAdapter ==
    /\ run_pc = "adapter"
    /\ run_pc' = "set_services"
    /\ UNCHANGED <<shared, clock, cbVars, blVars, decoded, cfgVars, fault,
                   ant_node, chan, services_set, advertising, stop_count>>

\* the service with its characteristic (value b'\x00'), adapter.set_services
SetServices ==
    /\ run_pc = "set_services"
    /\ services_set' = TRUE
    /\ char_value' = <<0>>
    /\ run_pc' = "advertising"
    /\ UNCHANGED <<shared, clock, cbVars, bl_pc, hr_data, wake_at, pushed,
                   enc_src, tested_hr, decoded, cfgVars, fault, ant_node, chan,
                   advertising, stop_count>>

\* the advertisement, adapter.start_advertising()
StartAdvertising ==
    /\ run_pc = "advertising"
    /\ advertising' = TRUE
    /\ run_pc' = "find_char"
    /\ UNCHANGED <<shared, clock, cbVars, blVars, decoded, cfgVars, fault,
                   ant_node, chan, services_set, stop_count>>

\* the search of adapter.services finds the characteristic: the loop starts
FindChar ==
    /\ run_pc = "find_char"
    /\ run_pc' = "loop"
    /\ bl_pc' = "test"
    /\ UNCHANGED <<shared, clock, cbVars, hr_data, wake_at, char_value, pushed,
                   enc_src, tested_hr, decoded, cfgVars, fault, ant_node, chan,
                   services_set, advertising, stop_count>>

\* mutant: a missing characteristic is raised as an error
FindCharMissing_Raise ==
    /\ run_pc = "find_char"
    /\ run_pc' = "finally"
    /\ bl_pc' = "not_found"
    /\ fault' = "find_char"
    /\ UNCHANGED <<shared, clock, cbVars, hr_data, wake_at, char_value, pushed,
                   enc_src, tested_hr, decoded, cfgVars, ant_node, chan,
                   services_set, advertising, stop_count>>

\* the search finds nothing: broadcast_loop logs and returns, the try
\* block of run ends normally
FindCharMissing ==
    /\ run_pc = "find_char"
    /\ run_pc' = "finally"
    /\ bl_pc' = "not_found"
    /\ UNCHANGED <<shared, clock, cbVars, hr_data, wake_at, char_value, pushed,
                   enc_src, tested_hr, decoded, cfgVars, fault, ant_node, chan,
                   services_set, advertising, stop_count>>

\* mutant: setup_ant_node and start_bluetooth_server swallow their own
\* exceptions and return, so run goes on with the next stage
SetupFault_Swallowed ==
    /\ run_pc \in StepSet
    /\ fault' = run_pc
    /\ run_pc' = IF run_pc \in AntSteps THEN "adapter"
                 ELSE IF run_pc \in BleSteps THEN "find_char"
                 ELSE "finally"
    /\ UNCHANGED <<shared, clock, cbVars, blVars, decoded, cfgVars, ant_node,
                   chan, services_set, advertising, stop_count>>

\* a statement of the setup raises: except Exception logs it
SetupFault ==
    /\ run_pc \in StepSet
    /\ fault' = run_pc
    /\ run_pc' = "finally"
    /\ UNCHANGED <<shared, clock, cbVars, blVars, decoded, cfgVars, ant_node,
                   chan, services_set, advertising, stop_count>>

\* mutant: inside the loop the interruption is caught with the push errors
Cancel_Swallowed ==
    /\ run_pc \in StepSet \cup {"loop"}
    /\ fault' = "cancel"
    /\ run_pc' = IF run_pc = "loop" THEN "loop" ELSE "finally"
    /\ UNCHANGED <<shared, clock, cbVars, blVars, decoded, cfgVars, ant_node,
                   chan, services_set, advertising, stop_count>>

\* the operator interrupts run: KeyboardInterrupt, or the cancellation of
\* the task, leaves the try block wherever run is
Cancel ==
    /\ run_pc \in StepSet \cup {"loop"}
    /\ fault' = "cancel"
    /\ run_pc' = "finally"
    /\ UNCHANGED <<shared, clock, cbVars, blVars, decoded, cfgVars, ant_node,
                   chan, services_set, advertising, stop_count>>

\* mutant: the node is stopped in the except Exception branch only
RunFinally_ErrorOnly ==
    /\ run_pc = "finally"
    /\ stop_count' = IF ant_node /\ fault \notin {"none", "cancel"}
                       THEN stop_count + 1 ELSE stop_count
    /\ run_pc' = "done"
    /\ UNCHANGED <<shared, clock, cbVars, blVars, decoded, cfgVars, fault,
                   ant_node, chan, services_set, advertising>>

\* finally: if self.ant_node: self.ant_node.stop()
RunFinally ==
    /\ run_pc = "finally"
    /\ stop_count' = IF ant_node THEN stop_count + 1 ELSE stop_count
    /\ run_pc' = "done"
    /\ UNCHANGED <<shared, clock, cbVars, blVars, decoded, cfgVars, fault,
                   ant_node, chan, services_set, advertising>>

\* --------------------------------------------------------- specification

Init ==
    /\ current_heart_rate = 0
    /\ last_heart_rate_time = 0
    /\ clock = 1      \* time.time() is positive; the fields start at 0
    /\ cb_pc = "idle"
    /\ cb_data = <<>>
    /\ run_pc = "loop"
    /\ bl_pc = "test"
    /\ hr_data = <<>>
    /\ wake_at = 0
    /\ char_value = <<0>>
    /\ pushed = <<>>
    /\ decoded = <<>>
    /\ enc_src = 0
    /\ tested_hr = 0
    /\ arg_device_id = MainDeviceId
    /\ arg_network_key = NoArg
    /\ ant_device_id = FixedDeviceId
    /\ ant_network_key = PublicNetworkKey
    /\ run_pc = "loop"
    /\ fault = "none"
    /\ ant_node = TRUE
    /\ chan = [registered |-> TRUE, key |-> PublicNetworkKey,
               id |-> <<FixedDeviceId, DEVICE_TYPE, TRANSMISSION_TYPE>>,
               open |-> TRUE]
    /\ services_set = TRUE
    /\ advertising = TRUE
    /\ stop_count = 0

Next ==
    \/ \E data \in Frames : Deliver(data)
    \/ CbCheck
    \/ CbStoreHr
    \/ CbStoreTime
    \/ BlTest
    \/ BlPack
    \/ BlPushOk
    \/ BlPushFail
    \/ BlWake
    \/ TimePasses

Spec == Init /\ [][Next]_vars

\* the loop is scheduled again and again and time goes on: the event loop
\* runs the task whenever it is ready, each statement of the loop body
\* completes, and every sleep ends
NextLive == Next \/ BlWakeAtHorizon

LiveSpec ==
    /\ Init
    /\ [][NextLive]_vars
    /\ WF_vars(BlTest)
    /\ WF_vars(BlPack)
    /\ WF_vars(BlPushOk \/ BlPushFail)
    /\ WF_vars(BlWake \/ BlWakeAtHorizon)
    /\ WF_vars(TimePasses)

\* the frames delivered while run is followed: a reading, a zero and a
\* short frame
RunFrames == {MkFrame(MinFrameLen, 72), MkFrame(MinFrameLen, 0), MkFrame(3, 72)}

\* the bridge as constructed by HeartRateMonitorBridge(device_id, key)
InitRun ==
    /\ current_heart_rate = 0
    /\ last_heart_rate_time = 0
    /\ clock = 1
    /\ cb_pc = "idle"
    /\ cb_data = <<>>
    /\ bl_pc = "not_started"
    /\ hr_data = <<>>
    /\ wake_at = 0
    /\ char_value = <<>>
    /\ pushed = <<>>
    /\ decoded = <<>>
    /\ enc_src = 0
    /\ tested_hr = 0
    /\ arg_device_id \in DeviceIds
    /\ arg_network_key \in KeyArgs
    /\ ant_device_id = InitDeviceId(arg_device_id)
    /\ ant_network_key = InitNetworkKey(arg_network_key)
    /\ run_pc = "node"
    /\ fault = "none"
    /\ ant_node = FALSE
    /\ chan = NoChannel
    /\ services_set = FALSE
    /\ advertising = FALSE
    /\ stop_count = 0

NextRun ==
    \/ NodeCreate
    \/ RequestCapabilities
    \/ NewChannel
    \/ SetNetworkKey
    \/ SetChannelId
    \/ OpenChannel
    \/ GetAdapter
    \/ SetServices
    \/ StartAdvertising
    \/ FindChar
    \/ FindCharMissing
    \/ SetupFault
    \/ Cancel
    \/ RunFinally
    \/ \E data \in RunFrames : Deliver(data)
    \/ CbCheck
    \/ CbStoreHr
    \/ CbStoreTime
    \/ BlTest
    \/ BlPack
    \/ BlPushOk
    \/ BlPushFail
    \/ BlWake
    \/ TimePasses

SpecRun == InitRun /\ [][NextRun]_vars

\* the finally clause of run is executed once the try block is left
SpecRunFair == SpecRun /\ WF_vars(RunFinally)

\* ================================================================ claims

\* a step of the callback: it is entered, or it moves on
CbStep == cb_pc' # cb_pc

\* a push attempt: the assignment to the characteristic is executed
PushStep == Len(pushed') = Len(pushed) + 1

\* C1: a frame shorter than 5 bytes changes neither current_heart_rate nor
\* last_heart_rate_time, whatever they hold, and the callback returns
\* without raising: every step of the callback on such a frame leaves the
\* pair unchanged and the check of the frame ends the call normally.
C1_ShortFrameIgnored ==
    [][(CbStep /\ Len(cb_data') < 5) =>
          /\ UNCHANGED shared
          /\ cb_pc' \in {"entered", "returned"}
          /\ (cb_pc = "entered" => cb_pc' = "returned")]_vars

\* a 3-byte frame has returned and the stored reading is still there
C1_Witness ==
    /\ cb_pc = "returned"
    /\ Len(cb_data) = 3
    /\ current_heart_rate = 72
    /\ last_heart_rate_time >= 1

\* C2: a frame of at least 5 bytes whose data[1] is 0 changes neither
\* current_heart_rate nor last_heart_rate_time: a stored non-zero reading is
\* not overwritten by the zero.
C2_ZeroFrameIgnored ==
    [][(CbStep /\ Len(cb_data') >= 5 /\ cb_data'[2] = 0) =>
          /\ UNCHANGED shared
          /\ cb_pc' \in {"entered", "returned"}
          /\ (cb_pc = "entered" => cb_pc' = "returned")]_vars

\* a zero frame has returned after the reading 72 was stored
C2_Witness ==
    /\ cb_pc = "returned"
    /\ Len(cb_data) >= 5
    /\ cb_data[2] = 0
    /\ current_heart_rate = 72
    /\ last_heart_rate_time >= 1

C4_IdleNeverPushes ==
    /\ [][(bl_pc = "test" /\ current_heart_rate = 0 /\ bl_pc' # bl_pc) =>
            /\ bl_pc' = "sleep"
            /\ pushed' = pushed
            /\ char_value' = char_value]_vars
    /\ [](current_heart_rate = 0 =>
            /\ pushed = <<>>
            /\ char_value = <<0>>
            /\ bl_pc \notin {"pack", "push"})

\* still Idle after a skipped tick at time 2 or later and an ignored frame
C4_Witness ==
    /\ current_heart_rate = 0
    /\ run_pc = "loop"
    /\ bl_pc = "sleep"
    /\ wake_at >= 3
    /\ cb_pc = "returned"
    /\ Len(cb_data) >= 5
    /\ pushed = <<>>

\* C5: every value pushed to the characteristic is two bytes, 0x00 and the
\* current_heart_rate read when it was packed, and for every v in 1..255
\* packing v gives [0x00, v], whose byte 1 is v.
C5_PushedFrameFormat ==
    /\ [][(bl_pc = "pack" /\ bl_pc' # bl_pc) =>
            bl_pc' = "push" /\ hr_data' = <<0, current_heart_rate>>]_vars
    /\ [][PushStep => Last(pushed').frame = hr_data]_vars
    /\ [](\A i \in DOMAIN pushed :
            /\ Len(pushed[i].frame) = 2
            /\ pushed[i].frame[1] = 0
            /\ pushed[i].frame[2] \in 1..255)
    /\ [](char_value # <<0>> =>
            /\ Len(char_value) = 2
            /\ char_value[1] = 0
            /\ char_value[2] \in 1..255)
    /\ [](\A v \in 1..255 :
            /\ StructPackBB(HrFlags, v) = <<0, v>>
            /\ StructPackBB(HrFlags, v)[2] = v)

\* the characteristic holds [0x00, 0xFF] after the reading 255
C5_Witness ==
    /\ char_value = <<0, 255>>
    /\ pushed # <<>>
    /\ Last(pushed).ok
    /\ current_heart_rate = 255

\* C6: Broadcasting is never left: once current_heart_rate is non-zero it
\* stays non-zero, and a tick that finds it non-zero goes on to pack and
\* push whatever the clock and last_heart_rate_time are.
C6_NeverBackToIdle ==
    /\ [][current_heart_rate # 0 => current_heart_rate' # 0]_vars
    /\ [][(bl_pc = "test" /\ current_heart_rate # 0 /\ bl_pc' # bl_pc) =>
            bl_pc' = "pack"]_vars
    /\ [](pushed # <<>> => current_heart_rate # 0)

\* a second push is due although the reading is two ticks old and the last
\* frame was a zero
C6_Witness ==
    /\ run_pc = "loop"
    /\ bl_pc = "push"
    /\ Len(pushed) = 1
    /\ clock - last_heart_rate_time >= 2
    /\ last_heart_rate_time >= 1
    /\ cb_pc = "returned"
    /\ Len(cb_data) >= 5
    /\ cb_data[2] = 0

\* C7: a push that raises changes neither the shared pair nor the
\* characteristic and does not end the loop: the loop sleeps one tick
\* interval, wakes no earlier than that, and the tick after any push
\* attempt packs the then current value of current_heart_rate and attempts
\* a push again.
C7_PushFailureResilience ==
    /\ [][(PushStep /\ ~Last(pushed').ok) =>
            /\ UNCHANGED shared
            /\ char_value' = char_value
            /\ bl_pc' = "sleep"
            /\ wake_at' = clock + TickInterval]_vars
    /\ [][(bl_pc = "sleep" /\ bl_pc' # bl_pc) =>
            bl_pc' = "test" /\ clock >= wake_at]_vars
    /\ [][(bl_pc = "test" /\ pushed # <<>> /\ bl_pc' # bl_pc) =>
            bl_pc' = "pack"]_vars
    /\ [][(bl_pc = "pack" /\ bl_pc' # bl_pc) =>
            bl_pc' = "push" /\ hr_data' = <<0, current_heart_rate>>]_vars
    /\ [](bl_pc # "exited")

\* two pushes in a row have failed, the second with an updated value
C7_Witness ==
    /\ Len(pushed) = 2
    /\ ~pushed[1].ok
    /\ ~pushed[2].ok
    /\ pushed[1].frame = <<0, 72>>
    /\ pushed[2].frame = <<0, 255>>
    /\ char_value = <<0>>
    /\ run_pc = "loop"
    /\ bl_pc = "sleep"

\* C8 (as claimed): the pair is updated atomically: no state shows
\* current_heart_rate holding a new bpm while last_heart_rate_time still
\* holds the timestamp of the previous reading.
C8_AtomicPairUpdate ==
    ~ /\ Len(decoded) >= 2
      /\ Last(decoded).at = NoTime
      /\ current_heart_rate = Last(decoded).hr
      /\ current_heart_rate # decoded[Len(decoded) - 1].hr
      /\ last_heart_rate_time = decoded[Len(decoded) - 1].at
      /\ last_heart_rate_time < clock
      /\ bl_pc \in {"test", "pack"}

\* C9: the broadcast loop never writes the shared pair: a step that changes
\* current_heart_rate or last_heart_rate_time is one of the two stores of
\* on_ant_broadcast and changes nothing of the loop, and every step of the
\* loop (skipped tick, pack, successful push, failed push, wake-up) leaves
\* both fields as they were.
C9_SingleWriter ==
    /\ [][current_heart_rate' # current_heart_rate =>
            /\ cb_pc = "store_hr" /\ cb_pc' = "store_time"
            /\ UNCHANGED blVars]_vars
    /\ [][last_heart_rate_time' # last_heart_rate_time =>
            /\ cb_pc = "store_time" /\ cb_pc' = "returned"
            /\ UNCHANGED blVars]_vars
    /\ [][blVars' # blVars => UNCHANGED shared]_vars

\* after a successful and a failed push and the sleep, the pair is still
\* the one the callback stored
C9_Witness ==
    /\ Len(pushed) = 2
    /\ pushed[1].ok
    /\ ~pushed[2].ok
    /\ run_pc = "loop"
    /\ bl_pc = "test"
    /\ wake_at >= 3
    /\ cb_pc = "returned"
    /\ decoded # <<>>
    /\ current_heart_rate = Last(decoded).hr
    /\ last_heart_rate_time = Last(decoded).at

\* C10: last write wins: the value packed by a tick is the one stored by
\* the latest valid decode, every pushed frame carries the value of the
\* decode that was the latest when the tick read the state, and successive
\* pushes never go back to an earlier decode, so a value overwritten
\* between two ticks is not pushed afterwards.
C10_LastWriteWins ==
    /\ [][(bl_pc = "pack" /\ bl_pc' = "push") =>
            /\ decoded # <<>>
            /\ hr_data'[2] = Last(decoded).hr]_vars
    /\ [](\A i \in DOMAIN pushed :
            /\ pushed[i].src \in 1..Len(decoded)
            /\ pushed[i].frame[2] = decoded[pushed[i].src].hr)
    /\ [](\A i, j \in DOMAIN pushed : i < j => pushed[i].src <= pushed[j].src)

\* 72 and then 255 were decoded before the first push: only 255 is pushed
C10_Witness ==
    /\ Len(decoded) = 2
    /\ decoded[1].hr = 72
    /\ decoded[2].hr = 255
    /\ Len(pushed) = 2
    /\ pushed[1].src = 2
    /\ pushed[1].frame = <<0, 255>>
    /\ pushed[2].frame = <<0, 255>>

\* C11: once a valid frame has stored v and as long as current_heart_rate
\* stays v, the loop keeps ticking and no push fails, the frame [0x00, v] is
\* eventually pushed. (The history of pushes is bounded: the claim is
\* checked from the states that leave room for the push in progress and
\* the next one.)
C11_ReadingEventuallyPushed ==
    \A v \in HrBytes \ {0} :
        (current_heart_rate = v /\ Len(pushed) + 2 <= MaxPushes)
            ~> \/ current_heart_rate # v
               \/ \E i \in DOMAIN pushed : ~pushed[i].ok
               \/ \E i \in DOMAIN pushed :
                     pushed[i].ok /\ pushed[i].frame = <<0, v>>

\* the first tick after the reading 72 has pushed [0x00, 0x48]
C11_Witness ==
    /\ Len(decoded) = 1
    /\ current_heart_rate = 72
    /\ Len(pushed) = 1
    /\ pushed[1].ok
    /\ pushed[1].frame = <<0, 72>>
    /\ char_value = <<0, 72>>
    /\ bl_pc = "sleep"

\* C12: ticks over an unchanged state are idempotent: two pushed frames
\* packed with no valid decode stored between their reads of the state are
\* byte-identical, and packing again after no store yields the same bytes.
C12_TickIdempotent ==
    /\ [](\A i, j \in DOMAIN pushed :
            pushed[i].src = pushed[j].src => pushed[i].frame = pushed[j].frame)
    /\ [][(bl_pc = "pack" /\ bl_pc' = "push" /\ hr_data # <<>>
             /\ enc_src = Len(decoded)) => hr_data' = hr_data]_vars

\* two ticks have pushed the same reading 72 twice
C12_Witness ==
    /\ Len(pushed) = 2
    /\ pushed[1].ok /\ pushed[2].ok
    /\ pushed[1].src = 1 /\ pushed[2].src = 1
    /\ pushed[1].frame = <<0, 72>>
    /\ pushed[2].frame = <<0, 72>>
    /\ Len(decoded) = 1

\* C13: the lifecycle is ordered: the callback is registered before the
\* channel is opened, the channel is open before the BLE service is
\* registered, the service is registered before advertising starts, and
\* nothing is packed or pushed before advertising has started.
C13_LifecycleOrder ==
    /\ [](chan.open => chan.registered)
    /\ [](services_set => chan.open)
    /\ [](advertising => services_set)
    /\ [](pushed # <<>> \/ bl_pc \in {"test", "pack", "push", "sleep"} => advertising)
    /\ [][(chan.registered => chan'.registered) /\ (chan.open => chan'.open)
           /\ (services_set => services_set') /\ (advertising => advertising')]_vars

\* a frame is pushed with every stage of the setup done
C13_Witness ==
    /\ run_pc = "loop"
    /\ chan.registered /\ chan.open
    /\ services_set /\ advertising
    /\ Len(pushed) = 1
    /\ pushed[1].ok

\* C14: whenever run ends after the node was created - by cancellation, by
\* a fault of a later ANT+ step, of a BLE step or of broadcast_loop, or by
\* the return of broadcast_loop - ant_node.stop() has been called exactly
\* once, never before the finally clause; when the creation of the node
\* failed, stop is not called.
C14_StopExactlyOnce ==
    /\ [](run_pc = "done" /\ ant_node => stop_count = 1)
    /\ [](run_pc = "done" /\ fault \in AntSteps \cup BleSteps \cup {"find_char", "loop"}
            => stop_count = 1)
    /\ [](run_pc = "done" /\ fault = "cancel" /\ chan.registered => stop_count = 1)
    /\ [](fault = "node" => ~ant_node /\ stop_count = 0)
    /\ [](run_pc # "done" => stop_count = 0)

\* run has ended on a fault of adapter.set_services, the node stopped once
C14_Witness ==
    /\ run_pc = "done"
    /\ fault = "set_services"
    /\ chan.open
    /\ ~services_set
    /\ stop_count = 1

\* C15: a cancellation ends the loop wherever it is, the wait between two
\* ticks included: from then on run is in or past its finally clause,
\* nothing more is pushed, and run eventually ends with the node stopped.
C15_CancelEndsLoop ==
    /\ [](fault = "cancel" => run_pc \in {"finally", "done"})
    /\ [][fault = "cancel" => pushed' = pushed /\ char_value' = char_value]_vars
    /\ (fault = "cancel") ~> (run_pc = "done" /\ (ant_node => stop_count = 1))

\* run was cancelled during a sleep that had not run out, after a push
C15_Witness ==
    /\ fault = "cancel"
    /\ run_pc = "done"
    /\ bl_pc = "sleep"
    /\ clock < wake_at
    /\ pushed # <<>>
    /\ stop_count = 1

\* C16: a fault of an ANT+ setup step leaves the BLE service unregistered,
\* advertising off and the loop not started; a fault of a BLE setup step
\* leaves the loop not started; in both cases nothing is ever pushed and
\* run goes to its finally clause.
C16_SetupFaultFatal ==
    /\ [](fault \in AntSteps =>
            /\ ~services_set /\ ~advertising
            /\ bl_pc = "not_started" /\ pushed = <<>>
            /\ run_pc \in {"finally", "done"})
    /\ [](fault \in BleSteps =>
            /\ bl_pc = "not_started" /\ pushed = <<>>
            /\ run_pc \in {"finally", "done"})

\* channel.open() failed: run has ended, no BLE stage was started
C16_Witness ==
    /\ fault = "channel_open"
    /\ run_pc = "done"
    /\ chan.registered /\ ~chan.open
    /\ ~services_set /\ ~advertising
    /\ pushed = <<>>

\* C17 (as claimed): the channel is configured with the device id passed
\* to the constructor, device type 120 and transmission type 0, and with the
\* key passed to the constructor or the public ANT+ key by default.
C17_SuppliedDeviceId ==
    /\ chan.id # <<>> => chan.id = <<arg_device_id, 120, 0>>
    /\ chan.key # <<>> =>
          chan.key = IF arg_network_key = NoArg THEN PublicNetworkKey
                     ELSE arg_network_key

\* C18: current_heart_rate is always an integer in 0..255, it is 0 at the
\* start, and it is 0 exactly as long as no frame of at least 5 bytes with a
\* non-zero data[1] has been stored; every stored reading is the data[1] of
\* such a frame.
C18_HeartRateRange ==
    /\ current_heart_rate = 0
    /\ [](current_heart_rate \in 0..255)
    /\ [](current_heart_rate = 0 <=> decoded = <<>>)
    /\ [][Len(decoded') > Len(decoded) =>
            /\ Len(cb_data) >= 5
            /\ cb_data[2] \in 1..255
            /\ Last(decoded').hr = cb_data[2]
            /\ current_heart_rate' = cb_data[2]]_vars

\* still 0 after a 4-byte frame carrying 255 and a skipped tick
C18_Witness ==
    /\ current_heart_rate = 0
    /\ decoded = <<>>
    /\ cb_pc = "returned"
    /\ Len(cb_data) = 4
    /\ cb_data[2] = 255
    /\ bl_pc = "sleep"

\* C19: the heart-rate byte of every pushed frame is non-zero under every
\* interleaving: between the test and the read of current_heart_rate the
\* callback may change the value, but the value tested, read and pushed is
\* never 0.
C19_PushedByteNonZero ==
    /\ [](\A i \in DOMAIN pushed : pushed[i].frame[2] # 0)
    /\ [](bl_pc \in {"pack", "push"} => tested_hr # 0 /\ current_heart_rate # 0)
    /\ [](bl_pc = "push" => hr_data[2] # 0)

\* the value pushed is not the value the tick had tested
C19_Witness ==
    /\ pushed # <<>>
    /\ bl_pc = "sleep"
    /\ tested_hr = 72
    /\ Last(pushed).frame = <<0, 255>>

\* C20: when the characteristic is not found, broadcast_loop returns
\* without a push and without an error, although advertising has started;
\* run goes to its finally clause and ends with the node stopped once.
C20_CharacteristicMissing ==
    /\ [](bl_pc = "not_found" =>
            /\ pushed = <<>>
            /\ char_value = <<0>>
            /\ advertising
            /\ fault = "none"
            /\ run_pc \in {"finally", "done"})
    /\ [](bl_pc = "not_found" /\ run_pc = "done" => stop_count = 1)
    /\ [][bl_pc = "not_found" => bl_pc' = "not_found"]_vars

\* run has ended after the search failed; a valid frame had been decoded
C20_Witness ==
    /\ bl_pc = "not_found"
    /\ run_pc = "done"
    /\ stop_count = 1
    /\ advertising
    /\ current_heart_rate = 72
    /\ pushed = <<>>

====
